---- MODULE Spec2Model ----
(***************************************************************************)
(* goldenhash measurement campaigns: the adaptive sample-size calculator,  *)
(* the external test invoker, the result store and the campaign            *)
(* orchestrators (collect_modular_data.py and the old_files runners).      *)
(***************************************************************************)
EXTENDS Integers, Naturals, Sequences, FiniteSets, TLC

(***************************************************************************)
(* Bounds of the model.                                                    *)
(***************************************************************************)
MaxN == 600           \* largest table size given to the calculator
MaxC == 16            \* largest target collision count given to it

(***************************************************************************)
(* Adaptive sample-size calculator: calculate_tests_for_collisions.        *)
(* Floating point is modelled in fixed point with Scale units per 1.0;     *)
(* every intermediate value stays below 2^31.                              *)
(***************************************************************************)
Scale == 4000000
RefineIterations == 10
MinTests == 100
NotCalled == -1

Max(a, b) == IF a >= b THEN a ELSE b

\* the least power of two, from h on, whose square exceeds x
RECURSIVE isqrt_above(_, _)
isqrt_above(x, h) == IF h * h > x THEN h ELSE isqrt_above(x, 2 * h)

\* the largest r in lo..hi with r * r <= x, by bisection
RECURSIVE isqrt_from(_, _, _)
isqrt_from(x, lo, hi) ==
    IF lo = hi THEN lo
    ELSE LET mid == (lo + hi + 1) \div 2
         IN  IF mid * mid <= x
             THEN isqrt_from(x, mid, hi)
             ELSE isqrt_from(x, lo, mid - 1)

\* int(math.sqrt(x)): the square root truncated towards zero
int_sqrt(x) == isqrt_from(x, 0, isqrt_above(x, 1))

\* (a * b) / c truncated, computed without leaving 32 bits
MulDiv(a, b, c) == (a \div c) * b + ((a % c) * b) \div c

\* tests - n*(1 - exp(-tests/n)) = sum_{k>=2} (-1)^k tests^k / (k! n^(k-1)),
\* summed term by term until the terms vanish; a is |term k| in Scale units
RECURSIVE collision_series(_, _, _, _, _)
collision_series(a, tests, n, k, sign) ==
    IF a = 0 THEN 0
    ELSE sign * a
         + collision_series(MulDiv(a, tests, n * (k + 1)), tests, n, k + 1, 0 - sign)

\* expected_collisions = tests - n * (1 - exp(-tests / n)), in Scale units
expected_collisions(tests, n) ==
    collision_series(MulDiv(tests * Scale, tests, 2 * n), tests, n, 2, 1)

\* mutant of initial_estimate: math.ceil in place of int
initial_estimate_ceil(n, target_collisions) ==
    LET r == int_sqrt(2 * n * target_collisions)
    IN  IF r * r = 2 * n * target_collisions THEN r ELSE r + 1

\* the first estimate: int(math.sqrt(2 * n * target_collisions))
initial_estimate(n, target_collisions) == int_sqrt(2 * n * target_collisions)

\* 0.9 * C <= expected_collisions(tests, n) <= 1.1 * C.  The expected
\* collisions of tests items fall as the table grows, so with more items
\* than buckets they are at least expected_collisions(tests, tests), which
\* settles the upper edge where the series for tests / n > 1 is not summed.
within_tolerance(tests, n, target_collisions) ==
    IF tests > n
       /\ expected_collisions(tests, tests) > 11 * target_collisions * (Scale \div 10)
    THEN FALSE
    ELSE LET e == expected_collisions(tests, n)
         IN  /\ 9 * target_collisions * (Scale \div 10) <= e
             /\ e <= 11 * target_collisions * (Scale \div 10)

\* mutant of refine_step: the lower edge of the band at 0.8 * C
refine_step_wide(tests, n, target_collisions) ==
    LET e == expected_collisions(tests, n)
    IN  IF e < 8 * target_collisions * (Scale \div 10) THEN "up"
        ELSE IF e > 11 * target_collisions * (Scale \div 10) THEN "down"
        ELSE "break"

\* one pass of the refinement loop body: "up", "down" or "break"
refine_step(tests, n, target_collisions) ==
    LET e == expected_collisions(tests, n)
    IN  IF e < 9 * target_collisions * (Scale \div 10) THEN "up"
        ELSE IF e > 11 * target_collisions * (Scale \div 10) THEN "down"
        ELSE "break"

scale_up(tests) == (tests * 11) \div 10        \* int(tests * 1.1)
scale_down(tests) == (tests * 95) \div 100     \* int(tests * 0.95)

\* the loop "for _ in range(10)" with iter passes left
RECURSIVE refine(_, _, _, _)
refine(tests, n, target_collisions, iter) ==
    IF iter = 0 THEN tests
    ELSE LET d == refine_step(tests, n, target_collisions)
         IN  IF d = "up" THEN refine(scale_up(tests), n, target_collisions, iter - 1)
             ELSE IF d = "down"
                  THEN refine(scale_down(tests), n, target_collisions, iter - 1)
                  ELSE tests

\* the values tests takes in the loop, the initial estimate first
RECURSIVE refine_values(_, _, _, _)
refine_values(tests, n, target_collisions, iter) ==
    IF iter = 0 THEN <<tests>>
    ELSE LET d == refine_step(tests, n, target_collisions)
         IN  IF d = "up"
             THEN <<tests>> \o refine_values(scale_up(tests), n, target_collisions, iter - 1)
             ELSE IF d = "down"
                  THEN <<tests>> \o refine_values(scale_down(tests), n,
                                                 target_collisions, iter - 1)
                  ELSE <<tests>>

\* whether the loop left through "break", and not by using up its passes
RECURSIVE refine_breaks(_, _, _, _)
refine_breaks(tests, n, target_collisions, iter) ==
    IF iter = 0 THEN FALSE
    ELSE LET d == refine_step(tests, n, target_collisions)
         IN  IF d = "up"
             THEN refine_breaks(scale_up(tests), n, target_collisions, iter - 1)
             ELSE IF d = "down"
                  THEN refine_breaks(scale_down(tests), n, target_collisions, iter - 1)
                  ELSE TRUE

\* mutant of target_exceeds_table: the comparison made strict
target_exceeds_table_strict(n, target_collisions) == target_collisions > n

\* "if target_collisions >= n": the early return of n
target_exceeds_table(n, target_collisions) == target_collisions >= n

\* mutant of minimum_tests: the floor dropped
minimum_tests_nofloor(tests) == tests

\* "return max(tests, 100)"
minimum_tests(tests) == Max(tests, MinTests)

calculate_tests_for_collisions(n, target_collisions) ==
    IF target_exceeds_table(n, target_collisions)
    THEN n
    ELSE minimum_tests(refine(initial_estimate(n, target_collisions),
                              n, target_collisions, RefineIterations))


(***************************************************************************)
(* Table-size generators.  A Python list is a sequence; set(sizes) is the  *)
(* set of its elements and sorted(...) the increasing sequence of a set.   *)
(***************************************************************************)
RECURSIVE Pow(_, _)
Pow(b, e) == IF e = 0 THEN 1 ELSE b * Pow(b, e - 1)

\* set(sizes)
Elements(list) == {list[i] : i \in DOMAIN list}

\* the concatenation f[lo] \o ... \o f[hi] of the lists a loop extends by
RECURSIVE flatten(_, _, _)
flatten(f, lo, hi) ==
    IF lo > hi THEN <<>>
    ELSE IF lo = hi THEN f[lo]
    ELSE LET mid == (lo + hi) \div 2
         IN  flatten(f, lo, mid) \o flatten(f, mid + 1, hi)

\* the members of S within lo..hi in increasing order
RECURSIVE sorted_between(_, _, _)
sorted_between(S, lo, hi) ==
    IF S = {} THEN <<>>
    ELSE IF lo = hi THEN <<lo>>
    ELSE IF Cardinality(S) = 1 THEN <<CHOOSE v \in S : TRUE>>
    ELSE LET mid == (lo + hi) \div 2
         IN  sorted_between({v \in S : v <= mid}, lo, mid)
             \o sorted_between({v \in S : v > mid}, mid + 1, hi)

\* sorted(list(S)) for a set S of sizes (all of them below 2^30)
sorted(S) == sorted_between(S, 0, Pow(2, 30))

(***************************************************************************)
(* generate_comprehensive_tests.py                                         *)
(***************************************************************************)
LowerBound == 50
UpperBound == 10000000

is_prime(n) ==
    IF n < 2 THEN FALSE
    ELSE IF n = 2 THEN TRUE
    ELSE IF n % 2 = 0 THEN FALSE
    ELSE \A i \in 3..int_sqrt(n) : i % 2 = 1 => n % i # 0

\* "while not is_prime(n): n += 2" from an odd n on
RECURSIVE next_odd_prime(_)
next_odd_prime(n) == IF is_prime(n) THEN n ELSE next_odd_prime(n + 2)

next_prime(n) ==
    IF n <= 2 THEN 2
    ELSE next_odd_prime(IF n % 2 = 0 THEN n + 1 ELSE n)

\* 4. Fibonacci numbers below the upper bound, each with its next prime
RECURSIVE fibonacci_sizes(_, _)
fibonacci_sizes(a, b) ==
    IF b < UpperBound
    THEN <<b, next_prime(b)>> \o fibonacci_sizes(b, a + b)
    ELSE <<>>

\* the list built by the ten appending steps
comprehensive_candidates ==
    LET
        \* 1. every prime below 1000
        small_primes == sorted({n \in 2..999 : is_prime(n)})
        \* 2. powers of two 2^6 .. 2^23 and nearby values
        powers_of_two ==
            flatten([p \in 6..23 |->
                        LET base == Pow(2, p)
                        IN  <<base - 1, base, base + 1,
                              next_prime(base - 10), next_prime(base + 10)>>],
                    6, 23)
        \* 3. powers of ten 10^2 .. 10^7 and nearby primes
        powers_of_ten ==
            flatten([p \in 2..7 |->
                        LET base == Pow(10, p)
                        IN  <<base, next_prime(base - 100), next_prime(base),
                              next_prime(base + 100)>>],
                    2, 7)
        \* 5. Mersenne numbers 2^p - 1 below the upper bound, with 2^p and 2^p + 1;
        \* 2^31 - 1 is formed without leaving 32 bits
        MersenneExponents == <<2, 3, 5, 7, 13, 17, 19, 31>>
        mersenne_sizes ==
            flatten([k \in DOMAIN MersenneExponents |->
                        LET p == MersenneExponents[k]
                            mersenne == (Pow(2, p - 1) - 1) + Pow(2, p - 1)
                        IN  IF mersenne < UpperBound
                            THEN <<mersenne, Pow(2, p), Pow(2, p) + 1>>
                            ELSE <<>>],
                    1, Len(MersenneExponents))
        \* 6. common hash table sizes
        common_sizes ==
            <<97, 193, 389, 769, 1543, 3079, 6151, 12289, 24593, 49157, 98317, 196613,
              393241, 786433, 1572869, 3145739, 6291469>>
        \* 7. highly composite numbers
        bad_sizes ==
            <<120, 360, 720, 1260, 1680, 2520, 5040, 10080, 20160, 40320, 80640,
              181440, 362880, 725760>>
        \* 8. primes at different scales
        random_primes ==
            <<127, 251, 509, 1021, 2039, 4093, 8191, 16381, 32749, 65521, 131071,
              262139, 524287, 1048573, 2097143, 4194301, 8388593>>
        \* int(2**i / phi): phi = 1.6180339887... is the limit of F(k+1)/F(k); with
        \* F(24) = 46368 and F(23) = 28657 the quotient truncates to the same integer
        \* for every i the loop uses
        golden(i) == MulDiv(Pow(2, i), 28657, 46368)
        \* 9. golden ratio related sizes
        golden_sizes ==
            flatten([i \in 10..24 |->
                        <<golden(i) - 1, golden(i), golden(i) + 1, next_prime(golden(i))>>],
                    10, 24)
        \* 10. squares of 10, 20, .. 990 and their neighbours
        square_sizes ==
            flatten([k \in 1..99 |->
                        LET i == 10 * k
                        IN  <<i * i - 1, i * i, i * i + 1>>],
                    1, 99)
    IN
        small_primes \o powers_of_two \o powers_of_ten \o fibonacci_sizes(1, 1)
        \o mersenne_sizes \o common_sizes \o bad_sizes \o random_primes
        \o golden_sizes \o square_sizes

\* mutant of in_range: the lower bound not applied
in_range_unbounded_below(s) == s <= UpperBound

\* "50 <= s <= 10_000_000"
in_range(s) == LowerBound <= s /\ s <= UpperBound

generate_test_sizes ==
    SelectSeq(sorted(Elements(comprehensive_candidates)), in_range)

\* categorize_sizes: the lists of the ten categories, each in the order of
\* sizes.  Every test is made when its size comes up in the loop, so the
\* Mersenne test sees the powers of two appended before that size
categorize_sizes(sizes) ==
    LET \* a, b = 1, 1; while b < 10_000_000: fibs.add(b); a, b = b, a + b
        RECURSIVE fibs_from(_, _)
        fibs_from(a, b) == IF b < 10000000 THEN {b} \cup fibs_from(b, a + b) ELSE {}
        fibs == fibs_from(1, 1)
        \* s & (s - 1) == 0
        powers == {0} \cup {Pow(2, p) : p \in 0..30}
        power_of_2(s) == s \in powers
        \* sum(1 for i in range(1, int(s**0.5) + 1) if s % i == 0)
        factor_count(s) == Cardinality({i \in 1..int_sqrt(s) : s % i = 0})
        \* factor_count > s**0.25: an integer exceeds the square root of s
        \* exactly when it exceeds the integer part of that root
        many_factors(s) == factor_count(s) * factor_count(s) > int_sqrt(s)
        \* s + 1 in categories["powers_of_2"], as that list stands when s comes up
        appended_power(i) == /\ power_of_2(sizes[i] + 1)
                             /\ \E j \in 1..(i - 1) : sizes[j] = sizes[i] + 1
        \* the sizes at the positions that pass the test, in list order
        pick(test(_)) == LET at == SelectSeq([i \in DOMAIN sizes |-> i], test)
                         IN  [k \in DOMAIN at |-> sizes[at[k]]]
        below(lo, hi) == pick(LAMBDA i : lo <= sizes[i] /\ sizes[i] < hi)
    IN  [tiny |-> below(0, 500),
         small |-> below(500, 5000),
         medium |-> below(5000, 50000),
         large |-> below(50000, 500000),
         huge |-> below(500000, 5000000),
         gigantic |-> below(5000000, UpperBound + 1),
         powers_of_2 |-> pick(LAMBDA i : power_of_2(sizes[i])),
         mersenne |-> pick(appended_power),
         fibonacci |-> pick(LAMBDA i : sizes[i] \in fibs),
         highly_composite |-> pick(LAMBDA i : many_factors(sizes[i]))]

(***************************************************************************)
(* run_massive_test.py: generate_all_test_sizes.  random is not seeded, so *)
(* each random.randint(100, 1000000) may return any value of its range;    *)
(* the model takes MaxDraws draws from the DrawSpan largest values.        *)
(***************************************************************************)
MaxDraws == 2         \* random.randint calls of one invocation (range(1000))
DrawSpan == 4         \* values of its range a call may return

DrawWindow ==
    LET
        RandomHigh == 1000000   \* random.randint(100, 1000000)
    IN
        (RandomHigh - DrawSpan + 1)..RandomHigh

\* sorted(list(set(...))) of the fixed sizes, taken once
massive_fixed_sorted ==
    LET
        massive_is_prime(n) ==
            IF n < 2 THEN FALSE
            ELSE \A i \in 2..int_sqrt(n) : n % i # 0
    IN
        LET
            \* every prime from 53 to 10,000
            massive_primes == sorted({n \in 53..9999 : massive_is_prime(n)})
            massive_powers_of_two ==
                flatten([p \in 6..23 |->
                            LET base == Pow(2, p) IN <<base - 1, base, base + 1>>],
                        6, 23)
            massive_powers_of_ten ==
                flatten([p \in 2..7 |->
                            LET base == Pow(10, p) IN <<base - 1, base, base + 1>>],
                        2, 7)
            \* sizes when the loop of random sizes is entered
            massive_fixed_sizes ==
                massive_primes \o massive_powers_of_two \o massive_powers_of_ten
        IN
            sorted(Elements(massive_fixed_sizes))

\* sorted(list(set(sizes))) with draws the values random.randint returned:
\* each drawn size takes its place among the sorted sizes unless it is there
RECURSIVE sorted_with(_, _)
sorted_with(list, draws) ==
    LET
        \* sorted(list(set(sizes + [v]))) for sizes sorted and duplicate-free
        sorted_insert(sizes, v) ==
            LET below == Cardinality({i \in DOMAIN sizes : sizes[i] < v})
            IN  IF below < Len(sizes) /\ sizes[below + 1] = v
                THEN sizes
                ELSE SubSeq(sizes, 1, below) \o <<v>> \o SubSeq(sizes, below + 1, Len(sizes))
    IN
        IF draws = <<>> THEN list
        ELSE sorted_with(sorted_insert(list, Head(draws)), Tail(draws))

generate_all_test_sizes(draws) == sorted_with(massive_fixed_sorted, draws)

(***************************************************************************)
(* generate_whitepaper_results.py: generate_test_sizes.  random.seed(42)   *)
(* fixes the stream random.randint draws from; seeded_draw stands for      *)
(* the k-th number of the stream of a seed.                                *)
(***************************************************************************)
MaxEntropy == 1       \* seeds an unseeded generator could start from: 0..MaxEntropy

SampleLimit == 5000

\* random.seed(42): the seed the stream starts from, whatever the entropy
random_seed(entropy) == 42

\* random.randint(a, b) as the k-th draw of the stream
randint(a, b, seed, k) ==
    LET
        seeded_draw ==
            ((seed * 131 + k * 7919) % 46337) * 46337 + ((seed + k * 104729) % 46337)
    IN
        a + (seeded_draw % (b - a + 1))

\* Fibonacci numbers above 255 and below 10000000
RECURSIVE whitepaper_fibonacci(_, _)
whitepaper_fibonacci(a, b) ==
    IF b < 10000000
    THEN (IF b > 255 THEN <<b>> ELSE <<>>) \o whitepaper_fibonacci(b, a + b)
    ELSE <<>>

\* the part of the list that does not depend on the random stream
whitepaper_fixed_set ==
    LET
        whitepaper_powers ==
            [k \in 1..17 |-> Pow(2, k + 7)]
            \o [k \in 1..17 |-> Pow(2, k + 7) - 1]
            \o [k \in 1..17 |-> Pow(2, k + 7) + 1]
        whitepaper_primes ==
            <<257, 509, 1021, 2039, 4093, 8191, 16381, 32749, 65521, 131071, 262139,
              524287, 1048573, 2097143, 4194301, 8388593>>
        whitepaper_composites ==
            <<360, 720, 1260, 2520, 5040, 10080, 20160, 40320, 83160, 181440, 362880,
              665280, 1330560, 2661120>>
        WhitepaperBases == <<256, 512, 1024, 2048, 4096>>
        WhitepaperMults == <<3, 5, 7, 9, 15, 21, 31, 63>>
        \* sizes with many factors of 2: base * mult
        whitepaper_multiples ==
            [k \in 1..(Len(WhitepaperBases) * Len(WhitepaperMults)) |->
                WhitepaperBases[1 + (k - 1) \div Len(WhitepaperMults)]
                * WhitepaperMults[1 + ((k - 1) % Len(WhitepaperMults))]]
        \* perfect squares of 16 .. 4095
        whitepaper_squares == [k \in 1..4080 |-> (k + 15) * (k + 15)]
        \* p + 2, p + 4, p + 6 for the first ten primes of the list
        whitepaper_prime_gaps ==
            flatten([k \in 1..10 |->
                        LET q == whitepaper_primes[k] IN <<q + 2, q + 4, q + 6>>],
                    1, 10)
    IN
        Elements(whitepaper_powers \o whitepaper_primes \o whitepaper_composites
                 \o whitepaper_multiples \o whitepaper_fibonacci(1, 1)
                 \o whitepaper_squares \o whitepaper_prime_gaps)

\* sorted(list(set(sizes)))
whitepaper_candidates(seed) ==
    LET
        \* the four loops of random sizes: 200, 1000, 500 and 100 draws
        whitepaper_random ==
            [k \in 1..200 |-> randint(256, 1024, seed, k)]
            \o [k \in 1..1000 |-> randint(1024, 65536, seed, 200 + k)]
            \o [k \in 1..500 |-> randint(65536, 1048576, seed, 1200 + k)]
            \o [k \in 1..100 |-> randint(1048576, 16777216, seed, 1700 + k)]
    IN
        sorted(whitepaper_fixed_set \cup Elements(whitepaper_random))

\* "if len(sizes) > 5000: step = len(sizes) // 5000; sizes[::step][:5000]"
sample(sizes) ==
    IF Len(sizes) > SampleLimit
    THEN LET step == Len(sizes) \div SampleLimit
             strided == (Len(sizes) + step - 1) \div step
             kept == IF strided < SampleLimit THEN strided ELSE SampleLimit
         IN  [j \in 1..kept |-> sizes[1 + (j - 1) * step]]
    ELSE sizes

whitepaper_generate_test_sizes(seed) == sample(whitepaper_candidates(seed))

(***************************************************************************)
(* The campaign: table sizes, the external executable, the result store.   *)
(***************************************************************************)
NumSizes == 2         \* sizes in one campaign (range(start_n, end_n))
MaxRuns == 2          \* executions of an orchestrator against one store
SizeOffset == 11      \* first table size of the campaign (num + 67536 + 65535)

TargetCollisions == 10

\* n = num + 67536 + 65535 for num in range(start_n, end_n); idx is num + 1
size_at(idx) == SizeOffset + idx - 1

CampaignSizes == {size_at(k) : k \in 1..NumSizes}

\* a size of the campaign other than n: what an executable that does not
\* echo the size it was asked for prints instead
other_size(n) == IF n + 1 \in CampaignSizes THEN n + 1 ELSE size_at(1)

\* What one run of the executable does when asked for table size n: its exit
\* status (or that it never returns) and the shape of what it printed:
\*   empty          nothing on stdout
\*   unparsable     nothing in the format the orchestrator reads
\*   null           the JSON literal null
\*   empty_record   a record with no field at all ({})
\*   complete       every Result field
\*   no_num_tests, no_test_vectors, no_chi_square   that field absent
\* A record names the table size it was run for; only the complete record
\* may name another size of the campaign than the one asked for.  The
\* sentinel hash of a record with test vectors is 1; 0 is what save_result
\* stores without one.
NoOutput(status, shape) ==
    [status |-> status, shape |-> shape, table_size |-> 0, test_hash |-> 0]

ExeBehaviours(n) ==
    {NoOutput(s, "empty") : s \in {"nonzero", "hang"}}
    \cup {NoOutput("zero", sh) : sh \in {"empty", "unparsable", "null", "empty_record"}}
    \cup {[status |-> "zero", shape |-> "complete", table_size |-> t, test_hash |-> 1] :
            t \in {n, other_size(n)}}
    \cup {[status |-> "zero", shape |-> sh, table_size |-> n, test_hash |-> 1] :
            sh \in {"no_num_tests", "no_chi_square"}}
    \cup {[status |-> "zero", shape |-> "no_test_vectors", table_size |-> n, test_hash |-> 0]}

RecordShapes == {"complete", "no_num_tests", "no_test_vectors", "no_chi_square"}
IncompleteShapes == {"empty_record", "no_num_tests", "no_test_vectors", "no_chi_square"}

\* what an invoker hands back: None, a falsy value, or the parsed record;
\* message is the line it printed about the failure
None(message) ==
    [kind |-> "None", message |-> message, shape |-> "empty", table_size |-> 0, test_hash |-> 0]
Parsed(kind, e) ==
    [kind |-> kind, message |-> "", shape |-> e.shape,
     table_size |-> e.table_size, test_hash |-> e.test_hash]

NoTimeout == 0

VARIABLES
    calc,                  \* one call of the calculator (SpecCalc)
    gen,                   \* the invocations of one size generator (SpecGen)
    report,                \* what the analyzer run last reported (SpecAnalyze)
    collectors,            \* the collector processes sharing a store (SpecConcurrent)
    pc,                    \* where the orchestrator process is
    orch,                  \* which orchestrator was started last
    runs,                  \* executions started so far
    idx,                   \* position of the campaign loop, 1..NumSizes+1
    exe,                   \* behaviour of the invocation in flight / last made
    num_tests,             \* iteration count passed to the invocation
    result,                \* what the invoker returned
    run_id,                \* run id of this execution (hash_tests orchestrators)
    test_runs,             \* number of rows of table test_runs
    hash_tests,            \* committed rows of table hash_tests
    modular_hash_results,  \* committed rows of table modular_hash_results
    pending,               \* rows inserted on the open connection, not committed
    tally,                 \* running totals of this execution
    honest,                \* every record saved so far named the size asked for
    attempted,             \* sizes invoked by this execution
    missingAtStart,        \* campaign sizes without a Result when it started
    succeeded,             \* sizes whose record the modular collector saved
    storeFailed            \* a store write of this execution raised an error

storeVars == <<test_runs, hash_tests, modular_hash_results>>
ghostVars == <<honest, attempted, missingAtStart, succeeded, storeFailed>>
orchVars == <<pc, orch, runs, idx, exe, num_tests, result, run_id, pending, tally>>
callVars == <<calc, gen, report, collectors>>
vars == <<callVars, orchVars, storeVars, ghostVars>>

NoCall == [n |-> 0, target_collisions |-> 0, tests |-> NotCalled]

\* a size generator before its first invocation: the lists its first and its
\* latest invocation returned (none yet), the random sizes drawn so far by
\* the invocation under way, and the categories main sorted the sizes into
NotInvoked(name) ==
    [name |-> name, invoking |-> FALSE, draws |-> <<>>, calls |-> "never",
     first |-> <<>>, last |-> <<>>, categories |-> <<>>]
NoGen == NotInvoked("none")

\* no analyzer has run
NoReport == [analyzer |-> "none", status |-> "ok"]
NoExe == NoOutput("none", "empty")
ZeroTally == [completed |-> 0, skipped |-> 0, failed |-> 0]

Running == pc \in {"loop", "invoking", "handle", "commit"}

\* no process is running
InitProcess ==
    /\ pc = "idle"
    /\ runs = 0
    /\ idx = 1
    /\ exe = NoExe
    /\ num_tests = 0
    /\ result = None("")
    /\ run_id = 0
    /\ pending = <<>>
    /\ tally = ZeroTally
    /\ honest = TRUE
    /\ attempted = {}
    /\ missingAtStart = {}
    /\ succeeded = {}
    /\ storeFailed = FALSE

InitOrch ==
    /\ InitProcess
    /\ orch = "none"
    /\ test_runs = 0
    /\ hash_tests = <<>>
    /\ modular_hash_results = <<>>

(***************************************************************************)
(* Result store                                                            *)
(***************************************************************************)
SizesIn(table) == {table[k].table_size : k \in 1..Len(table)}
RowsFor(table, n) == {k \in 1..Len(table) : table[k].table_size = n}

\* mutant of table_size_exists: the lookup never finds a row
table_size_exists_never(table_size) == FALSE

\* SELECT COUNT(*) FROM modular_hash_results WHERE table_size = ?; count > 0
table_size_exists(table_size) ==
    Cardinality(RowsFor(modular_hash_results, table_size)) > 0

\* mutant of commit: the inserted rows are dropped when the connection closes
commit_dropped(table, inserted) == table

\* mutant of autoincrement: the largest id is given out again
autoincrement_reused(last) == Max(last, 1)

\* the id AUTOINCREMENT gives the next row
autoincrement(last) == last + 1

\* mutant of setup_database: the table is created anew
setup_database_recreate(table) == <<>>

\* setup_database: CREATE TABLE IF NOT EXISTS leaves an existing table as it is
setup_database(table) == table

\* conn.commit(): the rows inserted on the connection become durable, each
\* under the id it was given when inserted
commit(table, inserted) ==
    LET
        \* the largest id of a table, 0 for an empty one: INTEGER PRIMARY KEY
        \* AUTOINCREMENT counts on from it
        last_id ==
            IF table = <<>> THEN 0
            ELSE CHOOSE m \in {table[k].id : k \in 1..Len(table)} :
                    \A k \in 1..Len(table) : table[k].id <= m
    IN
        table \o [k \in 1..Len(inserted) |->
                    [id |-> autoincrement(last_id + k - 1)] @@ inserted[k]]


(***************************************************************************)
(* Steps shared by the orchestrators                                       *)
(***************************************************************************)
\* a fresh process of the campaign this store belongs to (the first start
\* chooses the orchestrator, later starts run the same campaign again): loop
\* variables and per-execution history reset
Begin(o) ==
    /\ ~Running
    /\ runs < MaxRuns
    /\ orch \in {"none", o}
    /\ orch' = o
    /\ runs' = runs + 1
    /\ idx' = 1
    /\ pc' = "loop"
    /\ exe' = NoExe
    /\ num_tests' = 0
    /\ result' = None("")
    /\ pending' = <<>>
    /\ tally' = ZeroTally
    /\ attempted' = {}
    /\ storeFailed' = FALSE
    /\ UNCHANGED <<callVars, hash_tests, modular_hash_results, honest, succeeded>>

\* subprocess.run(cmd, ...) is entered for table size n with tests iterations
Invoke(n, tests) ==
    /\ \E b \in ExeBehaviours(n) : exe' = b
    /\ num_tests' = tests
    /\ attempted' = attempted \cup {n}
    /\ pc' = "invoking"

\* subprocess.run comes back: at once, or by TimeoutExpired when a timeout is
\* set; a child that never exits is waited for without end when none is set
Returns(e, timeout) == e.status = "hang" => timeout # NoTimeout

\* the operator interrupts or kills the process: the open connection dies
\* with it, and what it had not committed is rolled back
Kill ==
    /\ Running
    /\ pc' = "idle"
    /\ pending' = <<>>
    /\ UNCHANGED <<callVars, orch, runs, idx, exe, num_tests, result, run_id, tally,
                   storeVars, honest, attempted, missingAtStart, succeeded, storeFailed>>

\* the locals result and num_tests are assigned anew before they are read
\* again, and the child process is gone: back at the top of the loop they
\* are forgotten
Forget ==
    /\ exe' = IF pc' = "loop" THEN NoExe ELSE exe
    /\ num_tests' = IF pc' = "loop" THEN 0 ELSE num_tests
    /\ result' = IF pc' = "loop" THEN None("") ELSE result

(***************************************************************************)
(* collect_modular_data.py                                                 *)
(***************************************************************************)
ModularTimeout == 300

\* ModularDataCollector.run_test
run_test(e) ==
    IF e.status = "hang" THEN None("Timeout")
    ELSE IF ~(e.status = "zero" /\ e.shape # "empty") THEN None("Error running test")
    ELSE IF e.shape = "unparsable" THEN None("JSON parse error")
    ELSE IF e.shape = "null" THEN None("")
    ELSE IF e.shape = "empty_record" THEN Parsed("falsy", e)
    ELSE Parsed("data", e)

\* the row save_result inserts for the parsed record
modular_row(data, tests) ==
    [table_size |-> data.table_size,
     num_tests |-> IF data.shape = "no_num_tests" THEN 0 ELSE tests,
     test_hash |-> IF data.shape = "no_test_vectors" THEN 0 ELSE data.test_hash]

\* collector = ModularDataCollector(); "--resume" or the answer "yes"
StartModular ==
    /\ Begin("modular")
    /\ run_id' = 0
    /\ missingAtStart' = CampaignSizes \ SizesIn(modular_hash_results)
    /\ UNCHANGED test_runs

\* top of "for num in ...": end of range, skip of a recorded size, or invocation
ModularLoop ==
    /\ pc = "loop"
    /\ orch = "modular"
    /\ IF idx > NumSizes
       THEN /\ pc' = "done"
            /\ UNCHANGED <<idx, exe, num_tests, tally, attempted>>
       ELSE IF table_size_exists(size_at(idx))
            THEN /\ tally' = [tally EXCEPT !.skipped = @ + 1]
                 /\ idx' = idx + 1
                 /\ UNCHANGED <<pc, exe, num_tests, attempted>>
            ELSE /\ Invoke(size_at(idx),
                           calculate_tests_for_collisions(size_at(idx), TargetCollisions))
                 /\ UNCHANGED <<idx, tally>>
    /\ UNCHANGED <<callVars, orch, runs, result, run_id, pending, storeVars,
                   honest, missingAtStart, succeeded, storeFailed>>

\* result = collector.run_test(n, num_tests)
ModularRunTest ==
    /\ pc = "invoking"
    /\ orch = "modular"
    /\ Returns(exe, ModularTimeout)
    /\ result' = run_test(exe)
    /\ pc' = "handle"
    /\ UNCHANGED <<callVars, orch, runs, idx, exe, num_tests, run_id, pending, tally,
                   storeVars, ghostVars>>

\* "if result is None: sys.exit(1)"; "if result: save_result(result)" up to the
\* INSERT; a missing key raises KeyError, a store error raises out of main
ModularHandle ==
    /\ pc = "handle"
    /\ orch = "modular"
    /\ IF result.kind = "None"
       THEN /\ pc' = "exited"
            /\ UNCHANGED <<idx, pending, storeFailed>>
       ELSE IF result.kind = "falsy"
            THEN /\ pc' = "loop"
                 /\ idx' = idx + 1
                 /\ UNCHANGED <<pending, storeFailed>>
            ELSE IF result.shape = "no_chi_square"
                 THEN /\ pc' = "crashed"
                      /\ UNCHANGED <<idx, pending, storeFailed>>
                 ELSE \/ /\ pending' = <<modular_row(result, num_tests)>>
                         /\ pc' = "commit"
                         /\ UNCHANGED <<idx, storeFailed>>
                      \/ /\ storeFailed' = TRUE
                         /\ pc' = "crashed"
                         /\ UNCHANGED <<idx, pending>>
    /\ Forget
    /\ UNCHANGED <<callVars, orch, runs, run_id, tally, storeVars,
                   honest, attempted, missingAtStart, succeeded>>

\* conn.commit(); conn.close(); completed += 1
ModularCommit ==
    /\ pc = "commit"
    /\ orch = "modular"
    /\ \/ /\ modular_hash_results' = commit(modular_hash_results, pending)
          /\ pending' = <<>>
          /\ tally' = [tally EXCEPT !.completed = @ + 1]
          /\ idx' = idx + 1
          /\ pc' = "loop"
          /\ honest' = (honest /\ result.table_size = size_at(idx))
          /\ succeeded' = succeeded \cup {size_at(idx)}
          /\ UNCHANGED storeFailed
       \/ /\ storeFailed' = TRUE
          /\ pending' = <<>>
          /\ pc' = "crashed"
          /\ UNCHANGED <<modular_hash_results, tally, idx, honest, succeeded>>
    /\ Forget
    /\ UNCHANGED <<callVars, orch, runs, run_id, test_runs, hash_tests,
                   attempted, missingAtStart>>

(***************************************************************************)
(* Orchestrators writing to hash_tests through CROCSDataCollector          *)
(***************************************************************************)
\* the hash_tests row for a parsed record, under run r and table size t
hash_row(r, t, data) ==
    [run_id |-> r, table_size |-> t,
     chi_square |-> IF data.shape = "no_chi_square" THEN 0 ELSE 1]

\* CROCSDataCollector.create_test_run: INSERT INTO test_runs, commit, lastrowid
create_test_run(o) ==
    /\ Begin(o)
    /\ test_runs' = autoincrement(test_runs)
    /\ run_id' = test_runs'
    /\ missingAtStart' = CampaignSizes

\* top of the loop over the sizes of an orchestrator without resume
PlainLoop(o, tests) ==
    /\ pc = "loop"
    /\ orch = o
    /\ IF idx > NumSizes
       THEN /\ pc' = "done"
            /\ UNCHANGED <<exe, num_tests, attempted>>
       ELSE Invoke(size_at(idx), tests)
    /\ UNCHANGED <<callVars, orch, runs, idx, result, run_id, pending, storeVars,
                   honest, missingAtStart, succeeded, storeFailed>>

\* the invocation comes back and its output is parsed into r
InvokerReturn(o, timeout, r) ==
    /\ pc = "invoking"
    /\ orch = o
    /\ Returns(exe, timeout)
    /\ result' = r
    /\ pc' = "handle"
    /\ UNCHANGED <<callVars, orch, runs, idx, exe, num_tests, run_id, pending, tally,
                   storeVars, ghostVars>>

\* the item is over without a row: on to the next size
NextItem ==
    /\ pc' = "loop"
    /\ idx' = idx + 1

\* cursor.execute("INSERT INTO hash_tests ...") with the error escaping main
InsertOrCrash(row) ==
    \/ /\ pending' = <<row>>
       /\ pc' = "commit"
       /\ UNCHANGED <<idx, storeFailed>>
    \/ /\ storeFailed' = TRUE
       /\ pc' = "crashed"
       /\ UNCHANGED <<idx, pending>>

\* collector.conn.commit() with the error escaping main
CommitOrCrash ==
    \/ /\ hash_tests' = commit(hash_tests, pending)
       /\ pending' = <<>>
       /\ NextItem
       /\ UNCHANGED storeFailed
    \/ /\ storeFailed' = TRUE
       /\ pc' = "crashed"
       /\ UNCHANGED <<hash_tests, pending, idx>>

(***************************************************************************)
(* run_config_tests.py                                                     *)
(***************************************************************************)
ConfigTimeout == 300
ConfigTestCount == 100000

\* run_single_test: the CSV data line needs at least 12 fields
run_single_test(e) ==
    IF e.status = "hang" THEN None("TIMEOUT")
    ELSE IF e.status # "zero" THEN None("ERROR")
    ELSE IF e.shape \in {"complete", "no_num_tests", "no_test_vectors"}
         THEN Parsed("data", e)
         ELSE None("")

StartConfig == create_test_run("config")

\* "for i, size in enumerate(config['sizes'])" with config['test_count']
ConfigLoop ==
    /\ PlainLoop("config", ConfigTestCount)
    /\ UNCHANGED tally

ConfigRunSingleTest == InvokerReturn("config", ConfigTimeout, run_single_test(exe))

\* "if result:" INSERT ... "else: failed += 1"
ConfigHandle ==
    /\ pc = "handle"
    /\ orch = "config"
    /\ IF result.kind = "data"
       THEN /\ InsertOrCrash(hash_row(run_id, result.table_size, result))
            /\ UNCHANGED tally
       ELSE /\ NextItem
            /\ tally' = [tally EXCEPT !.failed = @ + 1]
            /\ UNCHANGED <<pending, storeFailed>>
    /\ Forget
    /\ UNCHANGED <<callVars, orch, runs, run_id, storeVars,
                   honest, attempted, missingAtStart, succeeded>>

\* collector.conn.commit(); successful += 1
ConfigCommit ==
    /\ pc = "commit"
    /\ orch = "config"
    /\ CommitOrCrash
    /\ tally' = IF pc' = "loop" THEN [tally EXCEPT !.completed = @ + 1] ELSE tally
    /\ Forget
    /\ UNCHANGED <<callVars, orch, runs, run_id, test_runs,
                   modular_hash_results, honest, attempted, missingAtStart, succeeded>>

(***************************************************************************)
(* run_systematic_tests.py                                                 *)
(***************************************************************************)
SystematicTimeout == NoTimeout
SystematicTestCount == 10000

\* run_test_batch: exit status, then the scan for labelled metric lines
systematic_metrics(e) ==
    IF e.status # "zero" THEN None("ERROR")
    ELSE IF e.shape \in RecordShapes THEN Parsed("data", e)
    ELSE Parsed("falsy", e)

StartSystematic == create_test_run("systematic")

\* "for table_size in config['table_sizes']"
SystematicLoop ==
    /\ PlainLoop("systematic", SystematicTestCount)
    /\ UNCHANGED tally

\* subprocess.run(cmd, cwd="build", capture_output=True, text=True)
SystematicRun == InvokerReturn("systematic", SystematicTimeout, systematic_metrics(exe))

\* "continue" on a non-zero exit; "if metrics:" INSERT with metrics.get(.., 0)
SystematicHandle ==
    /\ pc = "handle"
    /\ orch = "systematic"
    /\ IF result.kind = "data"
       THEN InsertOrCrash(hash_row(run_id, size_at(idx), result))
       ELSE /\ NextItem
            /\ UNCHANGED <<pending, storeFailed>>
    /\ Forget
    /\ UNCHANGED <<callVars, orch, runs, run_id, tally, storeVars,
                   honest, attempted, missingAtStart, succeeded>>

SystematicCommit ==
    /\ pc = "commit"
    /\ orch = "systematic"
    /\ CommitOrCrash
    /\ Forget
    /\ UNCHANGED <<callVars, orch, runs, run_id, tally, test_runs,
                   modular_hash_results, honest, attempted, missingAtStart, succeeded>>

(***************************************************************************)
(* run_massive_test.py and run_extreme_tests.py                            *)
(***************************************************************************)
MassiveTimeout == 600
ExtremeTimeout == 3600

\* the body of "try:" up to the INSERT: status and stdout, then the first
\* line of at least 12 fields
csv_line(e) ==
    IF e.status = "hang" THEN None("TIMEOUT")
    ELSE IF ~(e.status = "zero" /\ e.shape # "empty") THEN None("x")
    ELSE IF e.shape \in {"complete", "no_num_tests", "no_test_vectors"}
         THEN Parsed("data", e)
         ELSE Parsed("falsy", e)

\* INSERT and commit inside "try: ... except Exception as e: print(ERROR)":
\* a store error is printed and the loop goes on
GuardedHandle(o) ==
    /\ pc = "handle"
    /\ orch = o
    /\ IF result.kind = "data"
       THEN \/ /\ pending' = pending \o <<hash_row(run_id, result.table_size, result)>>
               /\ pc' = "commit"
               /\ UNCHANGED <<idx, storeFailed>>
            \/ /\ storeFailed' = TRUE
               /\ NextItem
               /\ UNCHANGED pending
       ELSE /\ NextItem
            /\ UNCHANGED <<pending, storeFailed>>
    /\ Forget
    /\ UNCHANGED <<callVars, orch, runs, run_id, tally, storeVars,
                   honest, attempted, missingAtStart, succeeded>>

\* a failed commit leaves the transaction open on the shared connection, or
\* rolled back, as the store decides
GuardedCommit(o) ==
    /\ pc = "commit"
    /\ orch = o
    /\ \/ /\ hash_tests' = commit(hash_tests, pending)
          /\ pending' = <<>>
          /\ UNCHANGED storeFailed
       \/ /\ storeFailed' = TRUE
          /\ pending' \in {pending, <<>>}
          /\ UNCHANGED hash_tests
    /\ NextItem
    /\ Forget
    /\ UNCHANGED <<callVars, orch, runs, run_id, tally, test_runs,
                   modular_hash_results, honest, attempted, missingAtStart, succeeded>>

\* TEST_COUNTS by size: small, medium, large
massive_test_count(size) ==
    IF size < 1000 THEN 100000
    ELSE IF size < 100000 THEN 500000
    ELSE 1000000

StartMassive == create_test_run("massive")

\* "for i, size in enumerate(sizes)"
MassiveLoop ==
    /\ PlainLoop("massive", massive_test_count(size_at(idx)))
    /\ UNCHANGED tally

MassiveRun == InvokerReturn("massive", MassiveTimeout, csv_line(exe))
MassiveHandle == GuardedHandle("massive")
MassiveCommit == GuardedCommit("massive")

\* calculate_appropriate_tests: 100 tests per bucket, at least a million,
\* ten times more above 100000 and again above 1000000, at most 500M
calculate_appropriate_tests(table_size) ==
    LET
        Min(a, b) == IF a <= b THEN a ELSE b
    IN
        LET base == Max(table_size * 100, 1000000)
            base2 == IF table_size > 100000 THEN base * 10 ELSE base
            base3 == IF table_size > 1000000 THEN base2 * 10 ELSE base2
        IN  Min(base3, 500000000)

StartExtreme == create_test_run("extreme")

\* "for size in config['sizes']: completed += 1"
ExtremeLoop ==
    /\ PlainLoop("extreme", calculate_appropriate_tests(size_at(idx)))
    /\ tally' = IF idx > NumSizes THEN tally ELSE [tally EXCEPT !.completed = @ + 1]

ExtremeRun == InvokerReturn("extreme", ExtremeTimeout, csv_line(exe))
ExtremeHandle == GuardedHandle("extreme")
ExtremeCommit == GuardedCommit("extreme")

Next ==
    \/ StartModular
    \/ ModularLoop
    \/ ModularRunTest
    \/ ModularHandle
    \/ ModularCommit
    \/ StartConfig
    \/ ConfigLoop
    \/ ConfigRunSingleTest
    \/ ConfigHandle
    \/ ConfigCommit
    \/ StartSystematic
    \/ SystematicLoop
    \/ SystematicRun
    \/ SystematicHandle
    \/ SystematicCommit
    \/ StartMassive
    \/ MassiveLoop
    \/ MassiveRun
    \/ MassiveHandle
    \/ MassiveCommit
    \/ StartExtreme
    \/ ExtremeLoop
    \/ ExtremeRun
    \/ ExtremeHandle
    \/ ExtremeCommit
    \/ Kill

Init == InitOrch /\ calc = NoCall /\ gen = NoGen /\ report = NoReport /\ collectors = <<>>

Spec == Init /\ [][Next]_vars

(***************************************************************************)
(* The calculator as a function of its arguments                           *)
(***************************************************************************)
\* one call of the calculator: a table size (a positive integer), a target
\* and, once it returned, its result
CalcInputs ==
    [n : 1..MaxN, target_collisions : 0..MaxC, tests : {NotCalled}]
    \cup {[n |-> 1000 * TargetCollisions, target_collisions |-> TargetCollisions,
           tests |-> NotCalled]}

CalcCall ==
    /\ calc.tests = NotCalled
    /\ calc' = [calc EXCEPT
                  !.tests = calculate_tests_for_collisions(calc.n, calc.target_collisions)]
    /\ UNCHANGED <<gen, report, collectors, orchVars, storeVars, ghostVars>>

InitCalc ==
    InitOrch /\ calc \in CalcInputs /\ gen = NoGen /\ report = NoReport /\ collectors = <<>>

SpecCalc == InitCalc /\ [][CalcCall]_vars

CalcReturned == calc.tests # NotCalled

(***************************************************************************)
(* SpecGen: one size generator, invoked again and again                    *)
(***************************************************************************)
\* the generator returns sizes: the first list is kept to compare with
Return(sizes) ==
    gen' = [gen EXCEPT
              !.invoking = FALSE,
              !.draws = <<>>,
              !.calls = IF gen.calls = "never" THEN "once" ELSE "again",
              !.first = IF gen.calls = "never" THEN sizes ELSE gen.first,
              !.last = sizes]

\* generate_comprehensive_tests.generate_test_sizes()
ComprehensiveCall ==
    /\ gen.name = "comprehensive"
    /\ Return(generate_test_sizes)
    /\ UNCHANGED <<calc, report, collectors, orchVars, storeVars, ghostVars>>

\* run_massive_test.generate_all_test_sizes() is entered and appends the
\* fixed sizes
MassiveGenerate ==
    /\ gen.name = "massive"
    /\ ~gen.invoking
    /\ gen' = [gen EXCEPT !.invoking = TRUE, !.draws = <<>>]
    /\ UNCHANGED <<calc, report, collectors, orchVars, storeVars, ghostVars>>

\* sizes.append(random.randint(100, 1000000))
MassiveDraw ==
    /\ gen.name = "massive"
    /\ gen.invoking
    /\ Len(gen.draws) < MaxDraws
    /\ \E v \in DrawWindow : gen' = [gen EXCEPT !.draws = Append(gen.draws, v)]
    /\ UNCHANGED <<calc, report, collectors, orchVars, storeVars, ghostVars>>

\* return sorted(list(set(sizes)))
MassiveReturn ==
    /\ gen.name = "massive"
    /\ gen.invoking
    /\ Len(gen.draws) = MaxDraws
    /\ Return(generate_all_test_sizes(gen.draws))
    /\ UNCHANGED <<calc, report, collectors, orchVars, storeVars, ghostVars>>

\* generate_whitepaper_results.generate_test_sizes(), in a process whose
\* random generator started from any entropy
WhitepaperCall ==
    /\ gen.name = "whitepaper"
    /\ \E entropy \in 0..MaxEntropy :
          Return(whitepaper_generate_test_sizes(random_seed(entropy)))
    /\ UNCHANGED <<calc, report, collectors, orchVars, storeVars, ghostVars>>

\* main: categories = categorize_sizes(all_sizes)
ComprehensiveCategorize ==
    /\ gen.name = "comprehensive"
    /\ gen.calls # "never"
    /\ gen' = [gen EXCEPT !.categories = categorize_sizes(gen.last)]
    /\ UNCHANGED <<calc, report, collectors, orchVars, storeVars, ghostVars>>

NextGen ==
    \/ ComprehensiveCall
    \/ ComprehensiveCategorize
    \/ MassiveGenerate
    \/ MassiveDraw
    \/ MassiveReturn
    \/ WhitepaperCall

InitGen ==
    /\ InitOrch
    /\ calc = NoCall
    /\ report = NoReport
    /\ collectors = <<>>
    /\ gen \in {NotInvoked(g) : g \in {"comprehensive", "massive", "whitepaper"}}

SpecGen == InitGen /\ [][NextGen]_vars

(***************************************************************************)
(* SpecStore: the operations of one result store, called in any order by   *)
(* the processes that open it.  A store is either the CROCSDataCollector   *)
(* database (test_runs, hash_tests) or the ModularDataCollector database   *)
(* (modular_hash_results alone: it has no table of runs).                  *)
(***************************************************************************)
MaxRows == 3          \* rows a result table is filled up to

\* CROCSDataCollector(): sqlite3.connect and setup_database
OpenCollector ==
    /\ pc = "idle"
    /\ orch \in {"none", "collector"}
    /\ orch' = "collector"
    /\ pc' = "open"
    /\ run_id' = 0
    /\ hash_tests' = setup_database(hash_tests)
    /\ UNCHANGED <<callVars, runs, idx, exe, num_tests, result, pending, tally,
                   test_runs, modular_hash_results, ghostVars>>

\* ModularDataCollector(): setup_database
OpenModular ==
    /\ pc = "idle"
    /\ orch \in {"none", "modular"}
    /\ orch' = "modular"
    /\ pc' = "open"
    /\ run_id' = 0
    /\ modular_hash_results' = setup_database(modular_hash_results)
    /\ UNCHANGED <<callVars, runs, idx, exe, num_tests, result, pending, tally,
                   test_runs, hash_tests, ghostVars>>

\* the process that opened the store ends
CloseStore ==
    /\ pc = "open"
    /\ pc' = "idle"
    /\ UNCHANGED <<callVars, orch, runs, idx, exe, num_tests, result, run_id,
                   pending, tally, storeVars, ghostVars>>

\* collector.create_test_run(...)
StoreCreateTestRun ==
    /\ pc = "open"
    /\ orch = "collector"
    /\ test_runs < MaxRuns
    /\ test_runs' = autoincrement(test_runs)
    /\ run_id' = test_runs'
    /\ UNCHANGED <<callVars, pc, orch, runs, idx, exe, num_tests, result, pending,
                   tally, hash_tests, modular_hash_results, ghostVars>>

\* collector.import_csv_data(csv_path, run_id) for a file of len data lines
\* and the run_id the caller passes
StoreImportCsvData ==
    LET
        \* the rows import_csv_data inserts for a file of len data lines, all under
        \* the run_id its caller passed
        csv_rows(len, r) ==
            [k \in 1..len |-> [run_id |-> r, table_size |-> size_at(k), chi_square |-> 1]]
    IN
        /\ pc = "open"
        /\ orch = "collector"
        /\ \E len \in 1..NumSizes, r \in 1..MaxRuns :
              /\ Len(hash_tests) + len <= MaxRows
              /\ hash_tests' = commit(hash_tests, csv_rows(len, r))
        /\ UNCHANGED <<callVars, pc, orch, runs, idx, exe, num_tests, result, run_id,
                       pending, tally, test_runs, modular_hash_results, ghostVars>>

\* the INSERT INTO hash_tests and commit of an orchestrator, under the run_id
\* its create_test_run returned
StoreInsertResult ==
    /\ pc = "open"
    /\ orch = "collector"
    /\ run_id # 0
    /\ Len(hash_tests) < MaxRows
    /\ \E n \in CampaignSizes :
          hash_tests' = commit(hash_tests,
                               <<[run_id |-> run_id, table_size |-> n, chi_square |-> 1]>>)
    /\ UNCHANGED <<callVars, pc, orch, runs, idx, exe, num_tests, result, run_id,
                   pending, tally, test_runs, modular_hash_results, ghostVars>>

\* ModularDataCollector.save_result(data)
StoreSaveResult ==
    /\ pc = "open"
    /\ orch = "modular"
    /\ Len(modular_hash_results) < MaxRows
    /\ \E n \in CampaignSizes :
          modular_hash_results' =
              commit(modular_hash_results,
                     <<[table_size |-> n, num_tests |-> MinTests, test_hash |-> 1]>>)
    /\ UNCHANGED <<callVars, pc, orch, runs, idx, exe, num_tests, result, run_id,
                   pending, tally, test_runs, hash_tests, ghostVars>>

NextStore ==
    \/ OpenCollector
    \/ OpenModular
    \/ CloseStore
    \/ StoreCreateTestRun
    \/ StoreImportCsvData
    \/ StoreInsertResult
    \/ StoreSaveResult

SpecStore == Init /\ [][NextStore]_vars

(***************************************************************************)
(* SpecConcurrent: two processes of collect_modular_data.py run the same   *)
(* campaign against one database file.  Each step of a process is one      *)
(* statement of main's loop that touches the store or the executable; the  *)
(* executables echo the size they were asked for, so that whatever the     *)
(* store ends up holding comes from the interleaving alone.                *)
(***************************************************************************)
\* "if collector.table_size_exists(n): skipped += 1; continue", or the end
\* of the range
ConcurrentLoop(p) ==
    /\ collectors[p].pc = "loop"
    /\ collectors' =
          [collectors EXCEPT ![p] =
              IF @.idx > NumSizes THEN [@ EXCEPT !.pc = "done"]
              ELSE IF table_size_exists(size_at(@.idx)) THEN [@ EXCEPT !.idx = @ + 1]
              ELSE [@ EXCEPT !.pc = "invoking"]]
    /\ UNCHANGED <<calc, gen, report, orchVars, storeVars, ghostVars>>

\* result = collector.run_test(n, num_tests); "if result is None:
\* sys.exit(1)"; "if result:"; save_result up to the INSERT, where a missing
\* key raises KeyError
ConcurrentRunTest(p) ==
    /\ collectors[p].pc = "invoking"
    /\ \E e \in {b \in ExeBehaviours(size_at(collectors[p].idx)) :
                    b.table_size \in {0, size_at(collectors[p].idx)}} :
          /\ Returns(e, ModularTimeout)
          /\ collectors' =
                [collectors EXCEPT ![p] =
                    IF run_test(e).kind = "None" THEN [@ EXCEPT !.pc = "exited"]
                    ELSE IF run_test(e).kind = "falsy" THEN [@ EXCEPT !.idx = @ + 1, !.pc = "loop"]
                    ELSE IF e.shape = "no_chi_square" THEN [@ EXCEPT !.pc = "crashed"]
                    ELSE [@ EXCEPT !.pc = "save", !.result = run_test(e)]]
    /\ UNCHANGED <<calc, gen, report, orchVars, storeVars, ghostVars>>

\* save_result: INSERT and conn.commit() are one write transaction of
\* SQLite, which lets one connection write at a time; completed += 1
ConcurrentSaveResult(p) ==
    /\ collectors[p].pc = "save"
    /\ modular_hash_results' =
          commit(modular_hash_results,
                 <<modular_row(collectors[p].result,
                               calculate_tests_for_collisions(size_at(collectors[p].idx),
                                                              TargetCollisions))>>)
    /\ collectors' = [collectors EXCEPT ![p] =
                         [@ EXCEPT !.idx = @ + 1, !.pc = "loop", !.result = None("")]]
    /\ UNCHANGED <<calc, gen, report, orchVars, test_runs, hash_tests, ghostVars>>

NextConcurrent ==
    \E p \in DOMAIN collectors :
        \/ ConcurrentLoop(p)
        \/ ConcurrentRunTest(p)
        \/ ConcurrentSaveResult(p)

\* both processes were started with --resume on a store that is empty
InitConcurrent ==
    /\ InitOrch
    /\ calc = NoCall
    /\ gen = NoGen
    /\ report = NoReport
    /\ collectors = [p \in 1..2 |-> [pc |-> "loop", idx |-> 1, result |-> None("")]]

SpecConcurrent == InitConcurrent /\ [][NextConcurrent]_vars

(***************************************************************************)
(* Analyzers.  The REAL columns avalanche_score, chi_square and            *)
(* collision_ratio are held in hundredths: 45 stands for 0.45.             *)
(***************************************************************************)
RECURSIVE SumSeq(_)
SumSeq(list) == IF list = <<>> THEN 0 ELSE Head(list) + SumSeq(Tail(list))

\* "{x:.1f}" of 100 * good / total, in tenths of a percent (the nearest
\* tenth, an exact half going to the even one)
percent_1f(good, total) ==
    LET q == (good * 1000) \div total
        r == (good * 1000) % total
    IN  IF 2 * r > total \/ (2 * r = total /\ q % 2 = 1) THEN q + 1 ELSE q

\* mutant of good_avalanche: the edges of the band left out
good_avalanche_open(x) == 45 < x /\ x < 55

\* 0.45 <= x <= 0.55
good_avalanche(x) == 45 <= x /\ x <= 55

\* the three percentages of the quality analysis
quality(data) ==
    LET
        \* 0.9 <= x <= 1.1
        good_chi(x) == 90 <= x /\ x <= 110
        \* x <= 1.2
        good_collision(x) == x <= 120
        \* sum(1 for x in ... if ...) over one column
        count_good(column, good(_)) ==
            Cardinality({k \in DOMAIN data : good(data[k][column])})
    IN
        [good_avalanche_pct |->
            percent_1f(count_good("avalanche_score", good_avalanche), Len(data)),
         good_chi_pct |->
            percent_1f(count_good("chi_square", good_chi), Len(data)),
         good_collision_pct |->
            percent_1f(count_good("collision_ratio", good_collision), Len(data))]

\* analyze_modular_results.analyze_modular_data over the fetched rows;
\* np.min of an empty list raises ValueError
analyze_modular_data(data) ==
    LET
        \* ranges = [(10000, 20000), ..., (70000, 80000)]
        ranges == [j \in 1..7 |-> <<10000 * j, 10000 * (j + 1)>>]
        \* len(range_data) for "start <= row[0] < end"
        range_count(range) ==
            Cardinality({k \in DOMAIN data :
                            range[1] <= data[k].table_size /\ data[k].table_size < range[2]})
    IN
        IF data = <<>>
        THEN [analyzer |-> "modular", status |-> "ValueError"]
        ELSE [analyzer |-> "modular", status |-> "ok", total |-> Len(data),
              range_counts |-> [j \in DOMAIN ranges |-> range_count(ranges[j])]]
             @@ quality(data)

\* generate_whitepaper_results.analyze_results over the collected records;
\* an empty DataFrame has no column avalanche_score
whitepaper_analyze_results(results) ==
    IF results = <<>>
    THEN [analyzer |-> "whitepaper", status |-> "KeyError", results |-> results]
    ELSE [analyzer |-> "whitepaper", status |-> "ok", total |-> Len(results),
          results |-> results]
         @@ quality(results)

\* hash_groups[test_hash]: the rows that share a sentinel hash
hash_group(data, h) == {k \in DOMAIN data : data[k].test_hash = h}

\* mutant of flagged_groups: the query without ORDER BY, the sizes of a group
\* compared in the order the rows were inserted
flagged_groups_unordered(data) ==
    {h \in {data[k].test_hash : k \in DOMAIN data} :
        /\ Cardinality(hash_group(data, h)) > 1
        /\ \A k \in hash_group(data, h) : data[k].is_prime
        /\ \A k, j \in hash_group(data, h) :
              (k < j /\ \A i \in hash_group(data, h) : ~(k < i /\ i < j))
                  => data[j].table_size - data[k].table_size <= 10}

\* "if all_prime and consecutive: consecutive_prime_dups += 1" for the groups
\* with len(tables) > 1
flagged_groups(data) ==
    LET
        \* sizes[i+1] - sizes[i] <= 10 for the sizes of a group in the order of the
        \* query (ORDER BY table_size): every size but the largest has a larger or
        \* equal size of another row at most 10 above it
        consecutive(group) ==
            \A k \in group :
                \/ \A j \in group : data[j].table_size <= data[k].table_size
                \/ \E j \in group :
                      /\ j # k
                      /\ data[j].table_size >= data[k].table_size
                      /\ data[j].table_size - data[k].table_size <= 10
                      /\ (data[j].table_size = data[k].table_size => j > k)
        all_prime(group) == \A k \in group : data[k].is_prime
    IN
        {h \in {data[k].test_hash : k \in DOMAIN data} :
            /\ Cardinality(hash_group(data, h)) > 1
            /\ all_prime(hash_group(data, h))
            /\ consecutive(hash_group(data, h))}

\* analyze_duplicates.analyze_duplicates over the fetched rows
analyze_duplicates(data) ==
    LET hashes == {data[k].test_hash : k \in DOMAIN data}
    IN  [analyzer |-> "duplicates", status |-> "ok",
         unique |-> Cardinality(hashes),
         duplicates |-> Cardinality({h \in hashes :
                                        Cardinality(hash_group(data, h)) > 1}),
         flagged |-> flagged_groups(data),
         consecutive_prime_dups |-> Cardinality(flagged_groups(data))]

\* data_collector.py main, command "analyze": analyze_results and the
\* printed summary; over no rows AVG is NULL and "{None:.4f}" raises TypeError
collector_analyze(data) ==
    LET
        \* the CASE of the performance query: 1 Small, 2 Medium, 3 Large, 4 Very Large
        size_range(table_size) ==
            IF table_size < 1000 THEN 1
            ELSE IF table_size < 100000 THEN 2
            ELSE IF table_size < 10000000 THEN 3
            ELSE 4
        \* chi_square BETWEEN 0.95 AND 1.05
        within_5pct(x) == 95 <= x /\ x <= 105
    IN
        IF data = <<>>
        THEN [analyzer |-> "collector", status |-> "TypeError"]
        ELSE [analyzer |-> "collector", status |-> "ok", total |-> Len(data),
              within_5pct_pct |->
                  percent_1f(Cardinality({k \in DOMAIN data : within_5pct(data[k].chi_square)}),
                             Len(data)),
              range_counts |->
                  [b \in 1..4 |->
                      Cardinality({k \in DOMAIN data : size_range(data[k].table_size) = b})]]

(***************************************************************************)
(* Analyzer runs over a store earlier runs have filled (SpecAnalyze)       *)
(***************************************************************************)
\* the tables of up to MaxRows committed rows drawn from Rows
tables_of(Rows) == UNION {{commit(<<>>, t) : t \in [1..len -> Rows]} : len \in 0..MaxRows}

\* a row of modular_hash_results with the columns the analyzers read;
\* metrics = <<avalanche_score, chi_square, collision_ratio>>
analysed_row(table_size, test_hash, metrics) ==
    [table_size |-> table_size, is_prime |-> is_prime(table_size),
     test_hash |-> test_hash, avalanche_score |-> metrics[1],
     chi_square |-> metrics[2], collision_ratio |-> metrics[3]]

\* 100 rows of which the first 45 lie in the avalanche band, on its edges
SyntheticResults ==
    commit(<<>>, [k \in 1..100 |->
        analysed_row(10000 + k, k,
            <<IF k > 45 THEN (IF k % 2 = 0 THEN 44 ELSE 56)
              ELSE (IF k % 2 = 0 THEN 45 ELSE 55), 100, 100>>)])

\* tables of rows whose metrics lie on the edges of the three bands, just
\* outside and inside
QualityTables ==
    tables_of({analysed_row(10007, 1, m) :
                  m \in {<<45, 90, 120>>, <<55, 110, 100>>, <<44, 89, 121>>, <<56, 111, 130>>}})

\* the tables modular_hash_results is drawn from
ModularTables ==
    LET InBand == <<50, 100, 100>>
        \* primes within 10 and 12 of each other, and a composite among them
        DuplicateSizes == {1009, 1013, 1015, 1019, 1021}
        \* sizes on the edges of the analyzer's ranges, and the first size the
        \* modular collector's main records: 0 + 67536 + 65535
        RangeSizes == {9999, 10000, 19999, 20000, 79999, 80000, 67536 + 65535}
    IN  QualityTables
        \cup tables_of({analysed_row(n, h, InBand) : n \in DuplicateSizes, h \in {0, 1}})
        \cup tables_of({analysed_row(n, 1, InBand) : n \in RangeSizes})
        \cup {SyntheticResults}

\* the tables hash_tests is drawn from: rows on the edges of the size ranges
\* and of the 5% band
CollectorTables ==
    tables_of({[run_id |-> 1, table_size |-> n, chi_square |-> x] :
                  n \in {999, 1000, 100000, 10000000}, x \in {95, 106}})

\* python analyze_modular_results.py: analyze_modular_data()
AnalyzeModularData ==
    /\ orch = "modular"
    /\ report' = analyze_modular_data(modular_hash_results)
    /\ UNCHANGED <<calc, gen, collectors, orchVars, storeVars, ghostVars>>

\* python analyze_duplicates.py: analyze_duplicates()
AnalyzeDuplicates ==
    /\ orch = "modular"
    /\ report' = analyze_duplicates(modular_hash_results)
    /\ UNCHANGED <<calc, gen, collectors, orchVars, storeVars, ghostVars>>

\* python data_collector.py analyze
CollectorAnalyze ==
    /\ orch = "collector"
    /\ report' = collector_analyze(hash_tests)
    /\ UNCHANGED <<calc, gen, collectors, orchVars, storeVars, ghostVars>>

\* WhitepaperDataGenerator.analyze_results() over the records collect_results
\* gathered in self.results
WhitepaperAnalyze ==
    /\ orch = "whitepaper"
    /\ \E results \in QualityTables : report' = whitepaper_analyze_results(results)
    /\ UNCHANGED <<calc, gen, collectors, orchVars, storeVars, ghostVars>>

NextAnalyze ==
    \/ AnalyzeModularData
    \/ AnalyzeDuplicates
    \/ CollectorAnalyze
    \/ WhitepaperAnalyze

InitAnalyze ==
    /\ InitProcess
    /\ calc = NoCall
    /\ gen = NoGen
    /\ report = NoReport
    /\ collectors = <<>>
    /\ \/ /\ orch = "modular"
          /\ test_runs = 0
          /\ hash_tests = <<>>
          /\ modular_hash_results \in ModularTables
       \/ /\ orch = "collector"
          /\ hash_tests \in CollectorTables
          /\ test_runs = IF hash_tests = <<>> THEN 0 ELSE 1
          /\ modular_hash_results = <<>>
       \/ /\ orch = "whitepaper"
          /\ test_runs = 0
          /\ hash_tests = <<>>
          /\ modular_hash_results = <<>>

SpecAnalyze == InitAnalyze /\ [][NextAnalyze]_vars

(***************************************************************************)
(* Properties                                                              *)
(***************************************************************************)
\* the timeout each orchestrator passes to subprocess.run
TimeoutOf(o) ==
    CASE o = "modular" -> ModularTimeout
      [] o = "config" -> ConfigTimeout
      [] o = "systematic" -> SystematicTimeout
      [] o = "massive" -> MassiveTimeout
      [] o = "extreme" -> ExtremeTimeout
      [] OTHER -> NoTimeout

\* the output carries every field orchestrator o reads: the JSON record of
\* the modular collector has num_tests and test_vectors, the CSV line and
\* the labelled lines of the others do not
Complete(o, e) ==
    /\ e.status = "zero"
    /\ \/ e.shape = "complete"
       \/ o # "modular" /\ e.shape \in {"no_num_tests", "no_test_vectors"}

\* a record came back with status 0 and lacks a field orchestrator o reads
LacksField(o, e) ==
    /\ e.status = "zero"
    /\ e.shape \in IncompleteShapes
    /\ ~Complete(o, e)

\* the failure mode of an invocation: exit status, timeout, or output that
\* is malformed or incomplete; "none" for a complete record
FailureMode(o, e) ==
    IF e.status = "nonzero" THEN "exit"
    ELSE IF e.status = "hang" THEN "timeout"
    ELSE IF e.status = "zero" /\ ~Complete(o, e) THEN "malformed"
    ELSE "none"

\* what the invoker of orchestrator o returns for behaviour b
Invoker(o, b) == IF o = "modular" THEN run_test(b) ELSE run_single_test(b)

\* C1: with an executable that reports the table size it was given, after any
\* starts, kills and resumes of the modular collector, modular_hash_results
\* holds at most one row per table_size
C1_OneRowPerSize ==
    honest => \A n \in CampaignSizes :
                 Cardinality(RowsFor(modular_hash_results, n)) <= 1

\* a resumed execution ran to the end, having skipped a size recorded before
C1_Witness ==
    /\ honest
    /\ orch = "modular"
    /\ pc = "done"
    /\ runs >= 2
    /\ tally.skipped >= 1
    /\ tally.completed >= 1
    /\ SizesIn(modular_hash_results) = CampaignSizes

\* C2: when the modular collector's loop finishes, the sizes this execution
\* invoked are exactly the campaign sizes that had no Result when it started,
\* and the store holds exactly one Result for every size whose invocation
\* succeeded
C2_ResumeComplete ==
    (orch = "modular" /\ pc = "done") =>
        /\ attempted = missingAtStart
        /\ \A n \in succeeded :
              Cardinality(RowsFor(modular_hash_results, n)) = 1

\* C3: no orchestrator process ends before the end of its size list because
\* the invocation for one size failed (non-zero exit, timeout, malformed or
\* incomplete output)
C3_FailureIsolated ==
    ~(/\ pc \in {"exited", "crashed"}
      /\ ~storeFailed
      /\ FailureMode(orch, exe) # "none"
      /\ idx <= NumSizes)

\* C4: a success counted by the orchestrator (completed / successful += 1) is
\* a row committed by that very step, before the loop goes on to the next
\* size, and a kill leaves every committed row in the store
C4_CommittedBeforeNext ==
    [][/\ (orch = "modular" /\ tally'.completed = tally.completed + 1)
            => Len(modular_hash_results') = Len(modular_hash_results) + 1
       /\ (orch = "config" /\ tally'.completed = tally.completed + 1)
            => Len(hash_tests') = Len(hash_tests) + 1
       /\ (Running /\ pc' = "idle")
            => /\ modular_hash_results' = modular_hash_results
               /\ hash_tests' = hash_tests
               /\ test_runs' = test_runs]_vars

\* the modular collector was killed with a parsed record in flight, after it
\* had recorded an earlier size: the earlier row is there, the one in flight
\* is not
C4_Witness ==
    /\ pc = "idle"
    /\ orch = "modular"
    /\ result.kind = "data"
    /\ tally.completed >= 1
    /\ Len(modular_hash_results) >= 1
    /\ RowsFor(modular_hash_results, result.table_size) = {}

\* C5: every invocation in flight carries a timeout, so none can block the
\* campaign forever
C5_EveryInvocationTimed ==
    pc = "invoking" => TimeoutOf(orch) # NoTimeout

\* C6: for each failure mode run_test / run_single_test return a failure
\* outcome, and what they report tells the mode apart from the other modes
C6_FailuresReportedDistinctly ==
    (/\ pc = "handle"
     /\ orch \in {"modular", "config"}
     /\ FailureMode(orch, exe) # "none") =>
        /\ result.kind = "None"
        /\ \A b \in ExeBehaviours(size_at(idx)) :
              FailureMode(orch, b) \notin {"none", FailureMode(orch, exe)}
                  => Invoker(orch, b) # result

\* C7: output of a zero exit that lacks a Result field writes no row, stores
\* no default in place of the field, and does not crash the process
C7_FailClosed ==
    /\ LacksField(orch, exe)
          => pc \notin {"commit", "crashed"}
    /\ \A k \in 1..Len(modular_hash_results) :
          /\ modular_hash_results[k].num_tests # 0
          /\ modular_hash_results[k].test_hash # 0
    /\ \A k \in 1..Len(hash_tests) : hash_tests[k].chi_square # 0

\* C8: after a store write of an execution failed, that execution invokes
\* the executable for no further size
C8_StoreFailureFatal ==
    ~(storeFailed /\ pc = "invoking")

\* C9: for every N and C with N <= C the calculator returns exactly N
C9_ReturnsTableSize ==
    (CalcReturned /\ calc.n <= calc.target_collisions) => calc.tests = calc.n

\* the boundary N = C, with a table smaller than the floor of 100
C9_Witness ==
    /\ CalcReturned
    /\ calc.n = calc.target_collisions
    /\ calc.n = MaxC
    /\ calc.tests = calc.n

\* C10 as stated: for every N >= 1 and every C the returned count is at
\* least 100, also when C >= N
C10_FloorAlways ==
    (CalcReturned /\ calc.n >= 1) => calc.tests >= MinTests

\* C10 amended: the floor of 100 holds whenever C < N; when C >= N the
\* calculator returns N itself, floor or not
C10_FloorBelowTableSize ==
    CalcReturned =>
        IF calc.target_collisions < calc.n
        THEN calc.tests >= MinTests
        ELSE calc.tests = calc.n

\* C < N and the refined count is below 100: the floor is what is returned
C10_Witness ==
    /\ CalcReturned
    /\ calc.target_collisions < calc.n
    /\ refine(initial_estimate(calc.n, calc.target_collisions),
              calc.n, calc.target_collisions, RefineIterations) < MinTests
    /\ calc.tests = MinTests

\* what the refinement loop leaves in tests for the call in calc
Refined ==
    refine(initial_estimate(calc.n, calc.target_collisions),
           calc.n, calc.target_collisions, RefineIterations)

\* the loop of the call in calc stopped through "break" before its 10 passes
\* were used up
Converged ==
    refine_breaks(initial_estimate(calc.n, calc.target_collisions),
                  calc.n, calc.target_collisions, RefineIterations)

\* C11 as stated: for every N and C with C < N the expected collisions of
\* the returned T lie in [0.9 C, 1.1 C], unless the loop used all its passes
C11_WithinTolerance ==
    (CalcReturned /\ calc.target_collisions < calc.n /\ Converged)
        => within_tolerance(calc.tests, calc.n, calc.target_collisions)

\* C11 amended: the band holds for the returned T when the loop stopped by
\* itself and the floor of 100 did not replace the count it stopped at; for
\* N = 10000, C = 10 the returned T is in the band
C11_WithinToleranceAboveFloor ==
    /\ (CalcReturned /\ calc.target_collisions < calc.n /\ Converged
           /\ Refined >= MinTests)
          => within_tolerance(calc.tests, calc.n, calc.target_collisions)
    /\ (CalcReturned /\ calc.n = 1000 * TargetCollisions)
          => /\ Converged
             /\ within_tolerance(calc.tests, calc.n, calc.target_collisions)

\* a count above the floor that the loop reached by scaling the first
\* estimate up until the band was met
C11_Witness ==
    /\ CalcReturned
    /\ calc.target_collisions < calc.n
    /\ Converged
    /\ Refined > MinTests
    /\ Refined # initial_estimate(calc.n, calc.target_collisions)
    /\ calc.tests = Refined

\* C12: generate_test_sizes returns a strictly increasing list whose every
\* element lies between the lower bound 50 and the upper bound 10,000,000
C12_SortedUniqueInRange ==
    LET
        \* a list in which each element is larger than the one before it
        StrictlyIncreasing(list) ==
            \A i \in 1..(Len(list) - 1) : list[i] < list[i + 1]
    IN
        (gen.name = "comprehensive" /\ gen.calls # "never")
            => /\ StrictlyIncreasing(gen.last)
               /\ \A i \in DOMAIN gen.last :
                     LowerBound <= gen.last[i] /\ gen.last[i] <= UpperBound

\* the returned list begins above the lower bound, at the prime 53, where
\* smaller candidates were dropped, and ends at the upper bound itself
C12_Witness ==
    /\ gen.name = "comprehensive"
    /\ gen.calls # "never"
    /\ Len(gen.last) > 1
    /\ gen.last[1] = 53
    /\ gen.last[Len(gen.last)] = UpperBound
    /\ Len(gen.last) < Len(comprehensive_candidates)

\* C13: two invocations of a size generator return identical lists, for
\* every generator that feeds an orchestrator
C13_Deterministic ==
    gen.calls = "again" => gen.last = gen.first

\* C14: every Result row in the store references an existing CampaignRun
C14_ResultsOwned ==
    LET
        \* the CampaignRun a Result row belongs to: its run_id, 0 where the row has
        \* no such column
        OwningRun(row) == IF "run_id" \in DOMAIN row THEN row.run_id ELSE 0
        \* the Result rows of the store
        Results == hash_tests \o modular_hash_results
    IN
        \A k \in 1..Len(Results) : OwningRun(Results[k]) \in 1..test_runs

\* existing rows stay as they are and no row goes away
AppendOnly(table, table2) ==
    /\ Len(table2) >= Len(table)
    /\ \A k \in 1..Len(table) : table2[k] = table[k]

\* C15: no operation updates or deletes a Result or a CampaignRun; opening a
\* store that holds rows keeps every one of them
C15_WriteOnce ==
    [][/\ AppendOnly(hash_tests, hash_tests')
       /\ AppendOnly(modular_hash_results, modular_hash_results')
       /\ test_runs' >= test_runs]_vars

\* a store that holds runs and Results was opened again by a new process
C15_Witness ==
    /\ pc = "open"
    /\ run_id = 0
    /\ test_runs > 0
    /\ Len(hash_tests) > 1

\* C16: create_test_run returns a run_id above every run_id of the store,
\* and an inserted Result gets an id above every id of its table
C16_IdsIncrease ==
    [][/\ test_runs' # test_runs
          => run_id' > test_runs /\ run_id' = test_runs'
       /\ \A k \in (Len(hash_tests) + 1)..Len(hash_tests') :
             \A j \in 1..(k - 1) : hash_tests'[k].id > hash_tests'[j].id
       /\ \A k \in (Len(modular_hash_results) + 1)..Len(modular_hash_results') :
             \A j \in 1..(k - 1) :
                modular_hash_results'[k].id > modular_hash_results'[j].id]_vars

\* the second run of a store was created and Results were inserted in
\* separate transactions
C16_Witness ==
    /\ test_runs > 1
    /\ run_id = test_runs
    /\ Len(hash_tests) > 1
    /\ hash_tests[Len(hash_tests)].run_id = run_id
    /\ hash_tests[1].run_id # run_id

\* the table the analyzer of the last report read
analysed ==
    IF report.analyzer = "collector" THEN hash_tests
    ELSE IF report.analyzer = "whitepaper" THEN report.results
    ELSE modular_hash_results

\* C17: an analyzer run against a store with zero Results completes and
\* reports instead of failing with an error (analyze_modular_data,
\* analyze_duplicates and the data collector's analyze command).
C17_EmptyStoreTolerated ==
    (report.analyzer \in {"modular", "duplicates", "collector"} /\ analysed = <<>>)
        => report.status = "ok"

\* C18: a group of rows sharing one sentinel hash is flagged exactly when it
\* has more than one table_size, all its sizes are prime and every pair of
\* its sizes differs by at most 10; in particular 1009 and 1013 sharing one
\* hash are flagged.
C18_FlaggedIffPrimeAndMutuallyClose ==
    LET data == modular_hash_results
        group_sizes(h) == {data[k].table_size : k \in hash_group(data, h)}
    IN  report.analyzer = "duplicates" =>
            \A h \in {data[k].test_hash : k \in DOMAIN data} :
                h \in report.flagged <=>
                    /\ Cardinality(group_sizes(h)) > 1
                    /\ \A n \in group_sizes(h) : is_prime(n)
                    /\ \A n, m \in group_sizes(h) : n - m <= 10

\* C19: for a non-empty set of Results the reported avalanche percentage is
\* 100 * (Results with 0.45 <= avalanche_score <= 0.55, edges included) /
\* (number of Results), and likewise for chi_square in [0.9, 1.1] and
\* collision_ratio <= 1.2; 100 Results with exactly 45 in the avalanche band
\* report 45.0%.  Percentages are in tenths of a percent, to the nearest tenth.
C19_PassRate ==
    LET in_band(column, lo, hi) ==
            Cardinality({k \in DOMAIN analysed :
                            lo <= analysed[k][column] /\ analysed[k][column] <= hi})
        is_percentage(pct, good, total) ==
            /\ 2 * (pct * total - 1000 * good) <= total
            /\ 2 * (1000 * good - pct * total) <= total
    IN  (report.analyzer \in {"modular", "whitepaper"} /\ analysed # <<>>) =>
            /\ report.status = "ok"
            /\ is_percentage(report.good_avalanche_pct,
                             in_band("avalanche_score", 45, 55), Len(analysed))
            /\ is_percentage(report.good_chi_pct,
                             in_band("chi_square", 90, 110), Len(analysed))
            /\ is_percentage(report.good_collision_pct,
                             in_band("collision_ratio", 0, 120), Len(analysed))
            /\ (analysed = SyntheticResults => report.good_avalanche_pct = 450)

C19_Witness ==
    /\ report.analyzer = "modular"
    /\ modular_hash_results = SyntheticResults
    /\ Cardinality({k \in 1..100 :
                       /\ 45 <= modular_hash_results[k].avalanche_score
                       /\ modular_hash_results[k].avalanche_score <= 55}) = 45
    /\ report.total = 100
    /\ report.good_avalanche_pct = 450

\* C20: the range buckets partition the Results: the bucket counts of a
\* report sum to the number of Results in the store, the sizes the modular
\* collector records included.
C20_BucketsPartition ==
    (report.analyzer \in {"modular", "collector"} /\ report.status = "ok") =>
        SumSeq(report.range_counts) = Len(analysed)

C22_NoRetryFailedUnrecorded ==
    [][/\ (pc = "loop" /\ pc' = "invoking") => size_at(idx) \notin attempted
       /\ (orch' = "modular" /\ pc' \in {"loop", "done"}) =>
             \A n \in attempted' \ succeeded' : ~table_size_exists(n)'
       /\ (orch = "config" /\ pc = "handle" /\ result.kind # "data") =>
             \A k \in DOMAIN hash_tests' :
                hash_tests'[k].run_id = run_id => hash_tests'[k].table_size # size_at(idx)]_vars

\* C23: at every point of the campaign loop each size processed so far is
\* counted in exactly one of succeeded, failed, skipped, so the three sum to
\* the number of sizes processed (at completion: the length of the campaign
\* list), and succeeded is the number of Results this execution wrote.
C23_TotalsConsistent ==
    (orch \in {"modular", "config"} /\ pc \in {"loop", "done"}) =>
        /\ tally.completed + tally.failed + tally.skipped = idx - 1
        /\ pc = "done" => tally.completed + tally.failed + tally.skipped = NumSizes
        /\ orch = "config" =>
              tally.completed
                  = Cardinality({k \in DOMAIN hash_tests : hash_tests[k].run_id = run_id})
        /\ (orch = "modular" /\ runs = 1) =>
              tally.completed = Len(modular_hash_results)

\* C24 (as claimed): for C < N the initial estimate is sqrt(2*N*C) rounded
\* up, each pass of the refinement scales tests up by 1.1 when the expected
\* collisions are below 0.9*C or down by 0.95 when they are above 1.1*C, and
\* there are at most 10 passes.
C24_CeilEstimateThenScaling ==
    (CalcReturned /\ calc.target_collisions < calc.n) =>
        LET n == calc.n
            c == calc.target_collisions
            v == refine_values(initial_estimate(n, c), n, c, RefineIterations)
            e(i) == expected_collisions(v[i], n)
        IN  /\ (v[1] - 1) * (v[1] - 1) < 2 * n * c /\ 2 * n * c <= v[1] * v[1]
            /\ Len(v) - 1 <= 10
            /\ \A i \in 1..(Len(v) - 1) :
                  \/ 10 * v[i + 1] <= 11 * v[i] /\ 11 * v[i] < 10 * (v[i + 1] + 1)
                     /\ 10 * e(i) < 9 * c * Scale
                  \/ 100 * v[i + 1] <= 95 * v[i] /\ 95 * v[i] < 100 * (v[i + 1] + 1)
                     /\ 10 * e(i) > 11 * c * Scale
            /\ calc.tests = Max(v[Len(v)], 100)

\* C24 (amended): the same with the initial estimate rounded down, and each
\* scaled value truncated to an integer.
C24_FloorEstimateThenScaling ==
    (CalcReturned /\ calc.target_collisions < calc.n) =>
        LET n == calc.n
            c == calc.target_collisions
            v == refine_values(initial_estimate(n, c), n, c, RefineIterations)
            e(i) == expected_collisions(v[i], n)
        IN  /\ v[1] * v[1] <= 2 * n * c /\ 2 * n * c < (v[1] + 1) * (v[1] + 1)
            /\ Len(v) - 1 <= 10
            /\ \A i \in 1..(Len(v) - 1) :
                  \/ 10 * v[i + 1] <= 11 * v[i] /\ 11 * v[i] < 10 * (v[i + 1] + 1)
                     /\ 10 * e(i) < 9 * c * Scale
                  \/ 100 * v[i + 1] <= 95 * v[i] /\ 95 * v[i] < 100 * (v[i + 1] + 1)
                     /\ 10 * e(i) > 11 * c * Scale
            /\ calc.tests = Max(v[Len(v)], 100)

\* a call whose 2*N*C is no square, which scaled its estimate up and returned
\* the refined count, above the floor
C24_Witness ==
    /\ CalcReturned
    /\ calc.target_collisions < calc.n
    /\ LET r == initial_estimate(calc.n, calc.target_collisions)
           v == refine_values(r, calc.n, calc.target_collisions, RefineIterations)
       IN  /\ r * r < 2 * calc.n * calc.target_collisions
           /\ Len(v) >= 2
           /\ v[2] > v[1]
           /\ calc.tests = v[Len(v)]
           /\ calc.tests > MinTests

\* C25: categorize_sizes tags a size of the generated list as
\* highly_composite exactly when the number of its divisors, to the fourth
\* power, exceeds the size (the count squared exceeds the square root).
C25_DivisorCountHeuristic ==
    gen.categories # <<>> =>
        LET divisor_count(s) ==
                2 * Cardinality({i \in 1..int_sqrt(s) : s % i = 0})
                    - (IF int_sqrt(s) * int_sqrt(s) = s THEN 1 ELSE 0)
        IN  \A s \in Elements(gen.last) :
                s \in Elements(gen.categories.highly_composite)
                    <=> divisor_count(s) * divisor_count(s) > int_sqrt(s)

\* C26: every size of the sorted input whose successor is a power of two
\* present in the input is in the mersenne category, and in its magnitude
\* category as well.
C26_MersenneTagged ==
    gen.categories # <<>> =>
        \A s \in Elements(gen.last) :
            ((\E p \in 0..30 : s + 1 = Pow(2, p)) /\ s + 1 \in Elements(gen.last)) =>
                /\ s \in Elements(gen.categories.mersenne)
                /\ \E magnitude \in {"tiny", "small", "medium", "large", "huge", "gigantic"} :
                       s \in Elements(gen.categories[magnitude])

\* C27: when the whitepaper generator has more than 5000 candidates, it
\* returns at most 5000 sizes taken from the sorted candidates a constant
\* number of positions apart, and the last size taken lies less than one
\* step before the end of the candidates.
C27_EvenSampleReachesEnd ==
    (gen.name = "whitepaper" /\ gen.calls # "never") =>
        LET candidates == whitepaper_candidates(random_seed(0))
            taken == Len(gen.last)
        IN  Len(candidates) > SampleLimit =>
                /\ taken <= SampleLimit
                /\ \E step \in 1..Len(candidates) : \E start \in 1..step :
                      /\ start + (taken - 1) * step <= Len(candidates)
                      /\ start + taken * step > Len(candidates)
                      /\ \A j \in 1..taken : gen.last[j] = candidates[start + (j - 1) * step]

\* C28: the Result committed for an invocation carries the table size the
\* orchestrator asked for, so table_size_exists is true of that size from
\* then on and no later execution of the collector invokes it again,
\* whatever table_size the executable's output names.
C28_RecordedUnderRequestedSize ==
    [][/\ (orch = "modular" /\ pc = "commit" /\ pc' = "loop") =>
              \A n \in {size_at(idx)} : table_size_exists(n)'
       /\ (orch = "config" /\ pc = "commit" /\ pc' = "loop") =>
              hash_tests'[Len(hash_tests')].table_size = size_at(idx)
       /\ (orch = "modular" /\ pc = "loop" /\ pc' = "invoking") =>
              size_at(idx) \notin succeeded]_vars

\* C29: while two collector processes run the same campaign against one
\* store, in every interleaving of their table_size_exists checks, their
\* invocations and their save_result commits the store holds at most one
\* Result per table size, and every Result it holds is a whole row.
C29_OneResultPerSizeConcurrently ==
    collectors # <<>> =>
        /\ \A n \in CampaignSizes : Cardinality(RowsFor(modular_hash_results, n)) <= 1
        /\ \A k \in DOMAIN modular_hash_results :
              DOMAIN modular_hash_results[k] = {"id", "table_size", "num_tests", "test_hash"}

\* C30: a Result saved from an output that carried no sentinel test vector
\* is alone in the group analyze_duplicates puts it in, so it is neither
\* grouped with nor counted as a duplicate of another Result.
C30_NoSentinelNeverGrouped ==
    [][(orch = "modular" /\ pc = "commit" /\ pc' = "loop"
           /\ result.shape = "no_test_vectors") =>
          \A k \in {Len(modular_hash_results')} :
              hash_group(modular_hash_results', modular_hash_results'[k].test_hash) = {k}]_vars

====
